---- MODULE Spec2Model ----
(***************************************************************************)
(* SawMillServer (src/server.py): the one-second simulation loop of        *)
(* start() and the tick update_simulation(), over the OPC UA variable      *)
(* nodes of sawmill_vars (the "sink").                                     *)
(*                                                                         *)
(* Floats are fixed-point integers in tenths: 20.0 m/min is 200.           *)
(* Every await of the code is one step; pc is the position of the          *)
(* coroutine main() -> init() -> start() -> update_simulation().           *)
(***************************************************************************)
EXTENDS Integers, FiniteSets, Sequences, TLC

VARIABLES
    sink,      \* sawmill_vars: point name -> value held by the variable node
    running,   \* self._running
    pc,        \* position of the coroutine
    clock,     \* datetime.now().second, the wall-clock second
    loc,       \* locals of update_simulation in the tick in flight
    tick,      \* record of what the tick in flight (or just returned) did
    ticks,     \* number of ticks started
    dev,       \* number of random draws so far that left their typical value
    ext,       \* number of writes made by external OPC UA clients
    hist       \* record of the run so far: toggles, their spacing, failed ticks

vars == <<sink, running, pc, clock, loc, tick, ticks, dev, ext, hist>>

(***************************************************************************)
(* Bounds of the model.                                                    *)
(***************************************************************************)
MaxTicks == 22       \* ticks explored when the program runs alone
MaxEnvTicks == 2     \* ticks explored with external writers and sink failures
MaxDeviations == 1   \* random draws that leave their typical value; the others are pinned to it
MaxExt == 2          \* external writes explored

(***************************************************************************)
(* Program constants (tenths).                                             *)
(***************************************************************************)
TargetCuttingSpeed == 200
TargetMotorSpeed == 18000
TargetPower == 750
TargetTemperature == 450
TargetVibration == 40
TargetPressure == 1750
TargetPieces == 0
MotorSpread == 900
CadenceSeconds == 10
SpeedMin == 150
SpeedMax == 250
SpeedRef == 200
PowerPerSpeed == 2
PowerMin == 600
PowerMax == 900
TempMin == 400
TempMax == 600
VibMin == 20
VibMax == 100
PressureMin == 1500
PressureMax == 2000
PowerAlarm == 850
TempAlarm == 550
VibAlarm == 80

StatePoints == {"is_active", "is_working", "is_stopped"}
SensorPoints == {"cutting_speed", "motor_speed", "speed", "power_consumption",
                 "temperature", "vibration", "pressure"}
AlarmPoints == {"has_alarm", "has_error"}
Points == StatePoints \cup SensorPoints \cup AlarmPoints \cup {"pieces_count"}

\* The values init() gives the variable nodes.
Seed ==
    [p \in Points |->
        CASE p = "is_active" -> FALSE
          [] p = "is_working" -> FALSE
          [] p = "is_stopped" -> TRUE
          [] p = "cutting_speed" -> TargetCuttingSpeed
          [] p = "motor_speed" -> TargetMotorSpeed
          [] p = "power_consumption" -> TargetPower
          [] p = "pieces_count" -> TargetPieces
          [] p = "has_alarm" -> FALSE
          [] p = "has_error" -> FALSE
          [] p = "temperature" -> TargetTemperature
          [] p = "vibration" -> TargetVibration
          [] p = "pressure" -> TargetPressure
          [] p = "speed" -> TargetMotorSpeed]

\* Mutant: the upper limit is not applied.
Clamp_NoUpper(lo, hi, x) == IF lo >= x THEN lo ELSE x

\* Python's max(lo, min(hi, x)).
Clamp(lo, hi, x) ==
    LET m == IF hi <= x THEN hi ELSE x
    IN  IF lo >= m THEN lo ELSE m

(***************************************************************************)
(* random.uniform(a, b) and random.random() < p: the draws explored.       *)
(* A draw ranges over its set while fewer than MaxDeviations draws have    *)
(* left their typical value, and is pinned to the typical value afterwards.*)
(***************************************************************************)
SpeedDraws == {-20, 0, 20}        \* uniform(-2, 2)
MotorDraws == {-MotorSpread, MotorSpread}       \* uniform(-90, 90)
PowerDraws == {-10, 10}           \* uniform(-1, 1)
TempDraws == {-2, 3}              \* uniform(-0.2, 0.3)
VibDraws == {-3, 3}               \* uniform(-0.3, 0.3)
PressureDraws == {-20, 20}        \* uniform(-2, 2)

Uniform(S, typical) == IF dev < MaxDeviations THEN S ELSE {typical}
\* random.random() < p, p at most 0.2: typically false.
Chance == Uniform(BOOLEAN, FALSE)
Drawn(r, typical) == dev' = IF r = typical THEN dev ELSE dev + 1

\* The wall-clock seconds at which the process may be started.
StartSeconds == {0, 4, 9, 58}
EnvStartSeconds == {0, 9}

NoLocals ==
    [is_active |-> FALSE, is_working |-> FALSE, second |-> 0,
     new_speed |-> 0, motor_speed |-> 0, power |-> 0,
     current_temp |-> 0, new_temp |-> 0, current_vib |-> 0, new_vib |-> 0,
     current_pressure |-> 0, pieces |-> 0]

\* No tick yet: nothing written, nothing read.
NoTick ==
    [wrote |-> <<>>, pre |-> <<>>, failed |-> FALSE, done |-> FALSE,
     branch |-> "none", fault_drawn |-> FALSE, ext |-> FALSE, stopped |-> FALSE]

\* since: ticks started after the last toggling tick; gap: ticks from the toggle
\* before the last one to the last one; toggles: toggling ticks so far;
\* steady: every sleep so far let exactly one wall-clock second pass;
\* failures: ticks abandoned on an exception.
NoHistory ==
    [since |-> 0, gap |-> 0, toggles |-> 0, steady |-> TRUE, failures |-> 0,
     early_stop |-> FALSE]

\* After SawMillServer(): _running is True, sawmill_vars is empty.
Constructed(seconds) ==
    /\ sink = <<>>
    /\ running = TRUE
    /\ pc = "constructed"
    /\ clock \in seconds
    /\ loc = NoLocals
    /\ tick = NoTick
    /\ ticks = 0
    /\ dev = 0
    /\ ext = 0
    /\ hist = NoHistory

Init == Constructed(StartSeconds)

InitEnv == Constructed(EnvStartSeconds)


(***************************************************************************)
(* main(): init() creates the variable nodes, start() enters the loop.     *)
(***************************************************************************)
InitServer ==
    /\ pc = "constructed"
    /\ sink' = Seed
    /\ pc' = "initialized"
    /\ UNCHANGED <<running, clock, loc, tick, ticks, dev, ext, hist>>

\* Mutant: start() leaves the flag as it finds it.
Start_KeepsFlag ==
    /\ pc = "initialized"
    /\ pc' = "loop"
    /\ UNCHANGED <<sink, running, clock, loc, tick, ticks, dev, ext, hist>>

\* start(): sets the flag, enters the server context and reaches the loop.
Start ==
    /\ pc = "initialized"
    /\ running' = TRUE
    /\ pc' = "loop"
    /\ UNCHANGED <<sink, clock, loc, tick, ticks, dev, ext, hist>>

\* update_simulation() has been called and has not returned.
InFlight == pc \notin {"constructed", "initialized", "loop", "sleep", "exited"}

\* Mutant: stop() also cancels the tick in flight.
Stop_Cancels ==
    /\ running
    /\ running' = FALSE
    /\ tick' = [tick EXCEPT !.stopped = InFlight]
    /\ pc' = IF InFlight THEN "sleep" ELSE pc
    /\ hist' = [hist EXCEPT !.early_stop = @ \/ pc \in {"constructed", "initialized"}]
    /\ UNCHANGED <<sink, clock, loc, ticks, dev, ext>>

\* stop(): callable by any other task at any time.
Stop ==
    /\ running
    /\ running' = FALSE
    /\ tick' = [tick EXCEPT !.stopped = InFlight]
    /\ hist' = [hist EXCEPT !.early_stop = @ \/ pc \in {"constructed", "initialized"}]
    /\ UNCHANGED <<sink, pc, clock, loc, ticks, dev, ext>>

\* Mutant: the loop never tests the flag.
LoopTest_Forever(bound) ==
    /\ pc = "loop"
    /\ ticks < bound
    /\ pc' = "r_active"
    /\ ticks' = ticks + 1
    /\ tick' = [NoTick EXCEPT !.pre = sink]
    /\ hist' = [hist EXCEPT !.since = @ + 1]
    /\ UNCHANGED <<sink, running, clock, loc, dev, ext>>

\* while self._running: the test at the top of the loop, then the call of
\* update_simulation() up to its first await.
LoopTest(bound) ==
    /\ pc = "loop"
    /\ IF running
         THEN /\ ticks < bound
              /\ pc' = "r_active"
              /\ ticks' = ticks + 1
              /\ tick' = [NoTick EXCEPT !.pre = sink]
              /\ hist' = [hist EXCEPT !.since = @ + 1]
         ELSE /\ pc' = "exited"
              /\ UNCHANGED <<ticks, tick, hist>>
    /\ UNCHANGED <<sink, running, clock, loc, dev, ext>>

\* await asyncio.sleep(1): the tick's locals are gone, the wall clock moves on.
Sleep(elapsed) ==
    /\ pc = "sleep"
    /\ pc' = "loop"
    /\ loc' = NoLocals
    /\ tick' = NoTick
    /\ \E e \in elapsed :
         /\ clock' = (clock + e) % 60
         /\ hist' = [hist EXCEPT !.steady = @ /\ e = 1]
    /\ UNCHANGED <<sink, running, ticks, dev, ext>>

(***************************************************************************)
(* update_simulation(): one step per await.                                *)
(***************************************************************************)
\* The sink accepts write_value(v) on point p; the tick goes on at next.
\* t is the tick's record before the write.
SinkWriteAs(p, v, next, t) ==
    /\ sink' = [sink EXCEPT ![p] = v]
    /\ tick' = [t EXCEPT !.wrote = (p :> v) @@ @, !.done = (next = "sleep")]
    /\ pc' = next
    /\ UNCHANGED <<running, clock, ticks, ext>>

SinkWrite(p, v, next) == SinkWriteAs(p, v, next, tick)

\* A step that writes nothing and goes on at next.
Goto(next) ==
    /\ pc' = next
    /\ tick' = [tick EXCEPT !.done = (next = "sleep")]
    /\ UNCHANGED <<sink, running, clock, ticks, ext>>

\* Mutant: the gate uses the value the toggle has just written.
ActiveGate_New ==
    IF "is_active" \in DOMAIN tick.wrote
      THEN (IF tick.wrote["is_active"] THEN "r_speed" ELSE "sleep")
      ELSE (IF loc.is_active THEN "r_speed" ELSE "sleep")

\* if is_active: the gate uses the value read at the start of the tick.
ActiveGate == IF loc.is_active THEN "r_speed" ELSE "sleep"

ReadIsActive ==
    /\ pc = "r_active"
    /\ loc' = [loc EXCEPT !.is_active = sink["is_active"]]
    /\ Goto("r_working")
    /\ UNCHANGED <<dev, hist>>

\* Mutant: the toggle fires every five seconds.
ReadIsWorking_EveryFive ==
    /\ pc = "r_working"
    /\ loc' = [loc EXCEPT !.is_working = sink["is_working"], !.second = clock]
    /\ Goto(IF clock % 5 = 0 THEN "w_active"
            ELSE IF loc.is_active THEN "r_speed" ELSE "sleep")
    /\ UNCHANGED <<dev, hist>>

\* is_working is read, then datetime.now() and the test second % 10 == 0.
ReadIsWorking ==
    /\ pc = "r_working"
    /\ loc' = [loc EXCEPT !.is_working = sink["is_working"], !.second = clock]
    /\ Goto(IF clock % CadenceSeconds = 0 THEN "w_active" ELSE ActiveGate)
    /\ UNCHANGED <<dev, hist>>

WriteIsActive ==
    /\ pc = "w_active"
    /\ SinkWrite("is_active", ~loc.is_active, "w_working")
    /\ hist' = [hist EXCEPT !.gap = hist.since, !.since = 0,
                          !.toggles = @ + 1]
    /\ UNCHANGED <<loc, dev>>

\* Mutant: is_working is set instead of flipped.
WriteIsWorking_Set ==
    /\ pc = "w_working"
    /\ SinkWrite("is_working", TRUE, "w_stopped")
    /\ UNCHANGED <<loc, dev, hist>>

WriteIsWorking ==
    /\ pc = "w_working"
    /\ SinkWrite("is_working", ~loc.is_working, "w_stopped")
    /\ UNCHANGED <<loc, dev, hist>>

\* Mutant: is_stopped is written from the value read, not from new_active.
WriteIsStopped_Stale ==
    /\ pc = "w_stopped"
    /\ SinkWrite("is_stopped", ~loc.is_active,
                 IF loc.is_active THEN "r_speed" ELSE "sleep")
    /\ UNCHANGED <<loc, dev, hist>>

\* write_value(not new_active), new_active = not is_active.
WriteIsStopped ==
    /\ pc = "w_stopped"
    /\ SinkWrite("is_stopped", ~(~loc.is_active), ActiveGate)
    /\ UNCHANGED <<loc, dev, hist>>

\* current_speed is read and never used.
ReadCuttingSpeed ==
    /\ pc = "r_speed"
    /\ Goto("w_speed")
    /\ UNCHANGED <<loc, dev, hist>>

\* Mutant: the cutting speed walks from the value the point holds.
WriteCuttingSpeed_Walk ==
    /\ pc = "w_speed"
    /\ \E r \in Uniform(SpeedDraws, 0) :
         LET new_speed == Clamp(SpeedMin, SpeedMax, sink["cutting_speed"] + r)
         IN  /\ Drawn(r, 0)
             /\ loc' = [loc EXCEPT !.new_speed = new_speed]
             /\ SinkWrite("cutting_speed", new_speed, "w_motor")
    /\ UNCHANGED hist

WriteCuttingSpeed ==
    /\ pc = "w_speed"
    /\ \E r \in Uniform(SpeedDraws, 0) :
         LET new_speed == Clamp(SpeedMin, SpeedMax, TargetCuttingSpeed + r)
         IN  /\ Drawn(r, 0)
             /\ loc' = [loc EXCEPT !.new_speed = new_speed]
             /\ SinkWrite("cutting_speed", new_speed, "w_motor")
    /\ UNCHANGED hist

WriteMotorSpeed ==
    /\ pc = "w_motor"
    /\ \E r \in Uniform(MotorDraws, MotorSpread) :
         LET motor_speed == TargetMotorSpeed + r
         IN  /\ Drawn(r, MotorSpread)
             /\ loc' = [loc EXCEPT !.motor_speed = motor_speed]
             /\ SinkWrite("motor_speed", motor_speed, "w_sensor")
    /\ UNCHANGED hist

\* Mutant: speed is written from the target instead of the new motor speed.
WriteSpeed_Target ==
    /\ pc = "w_sensor"
    /\ SinkWrite("speed", TargetMotorSpeed, "w_power")
    /\ UNCHANGED <<loc, dev, hist>>

WriteSpeed ==
    /\ pc = "w_sensor"
    /\ SinkWrite("speed", loc.motor_speed, "w_power")
    /\ UNCHANGED <<loc, dev, hist>>

\* Mutant: power is derived from the cutting speed the point held before the tick.
WritePower_FromPrevious ==
    /\ pc = "w_power"
    /\ \E r \in Uniform(PowerDraws, 10) :
         LET power == Clamp(PowerMin, PowerMax,
                            TargetPower
                              + (tick.pre["cutting_speed"] - SpeedRef) * PowerPerSpeed + r)
         IN  /\ Drawn(r, 10)
             /\ loc' = [loc EXCEPT !.power = power]
             /\ SinkWrite("power_consumption", power, "r_temp")
    /\ UNCHANGED hist

WritePower ==
    /\ pc = "w_power"
    /\ \E r \in Uniform(PowerDraws, 10) :
         LET power == Clamp(PowerMin, PowerMax,
                            TargetPower + (loc.new_speed - SpeedRef) * PowerPerSpeed + r)
         IN  /\ Drawn(r, 10)
             /\ loc' = [loc EXCEPT !.power = power]
             /\ SinkWrite("power_consumption", power, "r_temp")
    /\ UNCHANGED hist

ReadTemperature ==
    /\ pc = "r_temp"
    /\ loc' = [loc EXCEPT !.current_temp = sink["temperature"]]
    /\ Goto("w_temp")
    /\ UNCHANGED <<dev, hist>>

WriteTemperature ==
    /\ pc = "w_temp"
    /\ \E r \in Uniform(TempDraws, 3) :
         LET new_temp == Clamp(TempMin, TempMax, loc.current_temp + r)
         IN  /\ Drawn(r, 3)
             /\ loc' = [loc EXCEPT !.new_temp = new_temp]
             /\ SinkWrite("temperature", new_temp, "r_vib")
    /\ UNCHANGED hist

ReadVibration ==
    /\ pc = "r_vib"
    /\ loc' = [loc EXCEPT !.current_vib = sink["vibration"]]
    /\ Goto("w_vib")
    /\ UNCHANGED <<dev, hist>>

WriteVibration ==
    /\ pc = "w_vib"
    /\ \E r \in Uniform(VibDraws, 3) :
         LET new_vib == Clamp(VibMin, VibMax, loc.current_vib + r)
         IN  /\ Drawn(r, 3)
             /\ loc' = [loc EXCEPT !.new_vib = new_vib]
             /\ SinkWrite("vibration", new_vib, "r_pressure")
    /\ UNCHANGED hist

ReadPressure ==
    /\ pc = "r_pressure"
    /\ loc' = [loc EXCEPT !.current_pressure = sink["pressure"]]
    /\ Goto("w_pressure")
    /\ UNCHANGED <<dev, hist>>

\* After the pressure write: if is_working, the draw random.random() < 0.2.
WritePressure ==
    /\ pc = "w_pressure"
    /\ \E r \in Uniform(PressureDraws, 20) :
         LET new_pressure == Clamp(PressureMin, PressureMax, loc.current_pressure + r)
         IN  /\ Drawn(r, 20)
             /\ SinkWrite("pressure", new_pressure,
                          IF loc.is_working THEN "d_piece" ELSE "sleep")
    /\ UNCHANGED <<loc, hist>>

DrawPiece ==
    /\ pc = "d_piece"
    /\ \E hit \in Chance :
         /\ Drawn(hit, FALSE)
         /\ Goto(IF hit THEN "r_pieces" ELSE "alarms")
    /\ UNCHANGED <<loc, hist>>

ReadPieces ==
    /\ pc = "r_pieces"
    /\ loc' = [loc EXCEPT !.pieces = sink["pieces_count"]]
    /\ Goto("w_pieces")
    /\ UNCHANGED <<dev, hist>>

\* Mutant: the counter is stepped by two.
WritePieces_Two ==
    /\ pc = "w_pieces"
    /\ SinkWrite("pieces_count", loc.pieces + 2, "alarms")
    /\ UNCHANGED <<loc, dev, hist>>

WritePieces ==
    /\ pc = "w_pieces"
    /\ SinkWrite("pieces_count", loc.pieces + 1, "alarms")
    /\ UNCHANGED <<loc, dev, hist>>

\* Mutant: the vibration threshold is tried before the temperature threshold.
EvaluateAlarms_VibrationFirst ==
    /\ pc = "alarms"
    /\ IF loc.power > PowerAlarm
         THEN /\ SinkWriteAs("has_alarm", TRUE, "sleep", [tick EXCEPT !.branch = "power"])
              /\ UNCHANGED dev
         ELSE IF loc.new_vib > VibAlarm
         THEN /\ SinkWriteAs("has_alarm", TRUE, "sleep",
                             [tick EXCEPT !.branch = "vibration"])
              /\ UNCHANGED dev
         ELSE IF loc.new_temp > TempAlarm
         THEN /\ SinkWriteAs("has_alarm", TRUE, "sleep",
                             [tick EXCEPT !.branch = "temperature"])
              /\ UNCHANGED dev
         ELSE \E fault \in Chance :
                /\ Drawn(fault, FALSE)
                /\ IF fault
                     THEN SinkWriteAs("has_error", TRUE, "sleep",
                                      [tick EXCEPT !.branch = "fault", !.fault_drawn = TRUE])
                     ELSE SinkWriteAs("has_alarm", FALSE, "w_error",
                                      [tick EXCEPT !.branch = "clear", !.fault_drawn = TRUE])
    /\ UNCHANGED <<loc, hist>>

\* if power > 85 / elif new_temp > 55 / elif new_vib > 8 / elif random.random() < 0.01
\* / else: the branch taken and its first write.
\* Mutant: a threshold branch also resets has_error.
EvaluateAlarms_ResetsError ==
    /\ pc = "alarms"
    /\ IF loc.power > PowerAlarm
         THEN /\ SinkWriteAs("has_alarm", TRUE, "w_error", [tick EXCEPT !.branch = "power"])
              /\ UNCHANGED dev
         ELSE IF loc.new_temp > TempAlarm
         THEN /\ SinkWriteAs("has_alarm", TRUE, "w_error",
                             [tick EXCEPT !.branch = "temperature"])
              /\ UNCHANGED dev
         ELSE IF loc.new_vib > VibAlarm
         THEN /\ SinkWriteAs("has_alarm", TRUE, "w_error",
                             [tick EXCEPT !.branch = "vibration"])
              /\ UNCHANGED dev
         ELSE \E fault \in Chance :
                /\ Drawn(fault, FALSE)
                /\ IF fault
                     THEN SinkWriteAs("has_error", TRUE, "sleep",
                                      [tick EXCEPT !.branch = "fault", !.fault_drawn = TRUE])
                     ELSE SinkWriteAs("has_alarm", FALSE, "w_error",
                                      [tick EXCEPT !.branch = "clear", !.fault_drawn = TRUE])
    /\ UNCHANGED <<loc, hist>>

EvaluateAlarms ==
    /\ pc = "alarms"
    /\ IF loc.power > PowerAlarm
         THEN /\ SinkWriteAs("has_alarm", TRUE, "sleep", [tick EXCEPT !.branch = "power"])
              /\ UNCHANGED dev
         ELSE IF loc.new_temp > TempAlarm
         THEN /\ SinkWriteAs("has_alarm", TRUE, "sleep",
                             [tick EXCEPT !.branch = "temperature"])
              /\ UNCHANGED dev
         ELSE IF loc.new_vib > VibAlarm
         THEN /\ SinkWriteAs("has_alarm", TRUE, "sleep",
                             [tick EXCEPT !.branch = "vibration"])
              /\ UNCHANGED dev
         ELSE \E fault \in Chance :
                /\ Drawn(fault, FALSE)
                /\ IF fault
                     THEN SinkWriteAs("has_error", TRUE, "sleep",
                                      [tick EXCEPT !.branch = "fault", !.fault_drawn = TRUE])
                     ELSE SinkWriteAs("has_alarm", FALSE, "w_error",
                                      [tick EXCEPT !.branch = "clear", !.fault_drawn = TRUE])
    /\ UNCHANGED <<loc, hist>>

\* The second write of the else branch.
ClearError ==
    /\ pc = "w_error"
    /\ SinkWrite("has_error", FALSE, "sleep")
    /\ UNCHANGED <<loc, dev, hist>>

\* The positions at which the tick awaits a read_value() or a write_value().
SinkOps ==
    {"r_active", "r_working", "w_active", "w_working", "w_stopped",
     "r_speed", "w_speed", "w_motor", "w_sensor", "w_power",
     "r_temp", "w_temp", "r_vib", "w_vib", "r_pressure", "w_pressure",
     "r_pieces", "w_pieces", "alarms", "w_error"}

\* Mutant: the exception leaves update_simulation() and ends start().
SinkRaise_Escapes ==
    /\ pc \in SinkOps
    /\ ~tick.failed
    /\ pc' = "exited"
    /\ tick' = [tick EXCEPT !.failed = TRUE, !.done = TRUE]
    /\ hist' = [hist EXCEPT !.failures = @ + 1]
    /\ UNCHANGED <<sink, running, clock, loc, ticks, dev, ext>>

\* The awaited sink operation raises: except Exception logs it and
\* update_simulation() returns normally.
SinkRaise ==
    /\ pc \in SinkOps
    /\ ~tick.failed
    /\ pc' = "sleep"
    /\ tick' = [tick EXCEPT !.failed = TRUE, !.done = TRUE]
    /\ hist' = [hist EXCEPT !.failures = @ + 1]
    /\ UNCHANGED <<sink, running, clock, loc, ticks, dev, ext>>

(***************************************************************************)
(* External OPC UA clients: every node is writable (set_writable), and     *)
(* the server answers clients while start() is inside async with.          *)
(***************************************************************************)
ExtValues(p) ==
    CASE p \in {"is_active", "is_working"} -> BOOLEAN
      [] p = "is_stopped" -> {}
      [] p \in AlarmPoints -> {TRUE}
      [] p = "cutting_speed" -> {240}
      [] p = "motor_speed" -> {}
      [] p = "speed" -> {}
      [] p = "power_consumption" -> {950}
      [] p = "temperature" -> {552, 700}
      [] p = "vibration" -> {82}
      [] p = "pressure" -> {0}
      [] p = "pieces_count" -> {7}

Serving == pc \notin {"constructed", "initialized", "exited"}

\* Writes that no explored tick can read are not explored.
ExternalWrite(bound) ==
    /\ Serving
    /\ ticks < bound \/ pc \notin {"loop", "sleep"}
    /\ ext < MaxExt
    /\ \E p \in Points : \E v \in ExtValues(p) :
         /\ sink[p] # v
         /\ sink' = [sink EXCEPT ![p] = v]
    /\ ext' = ext + 1
    /\ tick' = [tick EXCEPT !.ext = TRUE]
    /\ UNCHANGED <<running, pc, clock, loc, ticks, dev, hist>>

(***************************************************************************)
(* Specifications.                                                         *)
(***************************************************************************)
TickSteps ==
    \/ ReadIsActive \/ ReadIsWorking
    \/ WriteIsActive \/ WriteIsWorking \/ WriteIsStopped
    \/ ReadCuttingSpeed \/ WriteCuttingSpeed
    \/ WriteMotorSpeed \/ WriteSpeed \/ WritePower
    \/ ReadTemperature \/ WriteTemperature
    \/ ReadVibration \/ WriteVibration
    \/ ReadPressure \/ WritePressure
    \/ DrawPiece \/ ReadPieces \/ WritePieces
    \/ EvaluateAlarms \/ ClearError

\* The program alone: main(), the loop, stop(); the clock advances one
\* second per sleep.
Next ==
    \/ InitServer \/ Start \/ Stop
    \/ LoopTest(MaxTicks) \/ TickSteps \/ Sleep({1})

Spec == Init /\ [][Next]_vars

\* The steps of start() after an await has completed.
Resumes == LoopTest(MaxTicks) \/ TickSteps \/ Sleep({1})

\* The program alone, with every sink operation and every sleep eventually
\* returning: the event loop then resumes start().
SpecLive == Spec /\ WF_vars(Resumes)

\* The program and external OPC UA clients writing points.
NextExt ==
    \/ InitServer \/ Start
    \/ LoopTest(MaxEnvTicks) \/ TickSteps \/ Sleep({1})
    \/ ExternalWrite(MaxEnvTicks)

SpecExt == InitEnv /\ [][NextExt]_vars

\* The program over a sink whose operations may raise, with ticks that
\* overrun the second.
NextFail ==
    \/ InitServer \/ Start \/ Stop
    \/ LoopTest(MaxEnvTicks) \/ TickSteps \/ Sleep({1, 2})
    \/ SinkRaise

SpecFail == InitEnv /\ [][NextFail]_vars

(***************************************************************************)
(* Properties.                                                             *)
(***************************************************************************)
\* update_simulation() is not in flight and the points exist.
Boundary == pc \in {"initialized", "loop", "sleep", "exited"}

\* update_simulation() has just returned; loc and tick describe that tick.
Returned == pc = "sleep"

Wrote == DOMAIN tick.wrote

\* C1: at every tick boundary of the program running alone from the seed
\* values, is_stopped is the negation of is_active.
C1_StoppedIsNotActive ==
    Boundary => (sink["is_stopped"] = ~sink["is_active"])

\* A toggling tick has returned and left the machine active.
C1_Witness ==
    /\ Returned
    /\ "is_stopped" \in Wrote
    /\ sink["is_active"]
    /\ ~sink["is_stopped"]

\* C2: at every tick boundary of the program running alone from the seed
\* values, is_working implies is_active.
C2_WorkingImpliesActive ==
    Boundary => (sink["is_working"] => sink["is_active"])

\* A toggling tick has returned and left the machine working; an earlier
\* toggle had turned it off.
C2_Witness ==
    /\ Returned
    /\ "is_working" \in Wrote
    /\ sink["is_working"]
    /\ hist.toggles = 3

\* The documented range of each sensor point.
RangeMin(p) ==
    CASE p = "cutting_speed" -> 150
      [] p = "power_consumption" -> 600
      [] p = "temperature" -> 400
      [] p = "vibration" -> 20
      [] p = "pressure" -> 1500
      [] p \in {"motor_speed", "speed"} -> 17100

RangeMax(p) ==
    CASE p = "cutting_speed" -> 250
      [] p = "power_consumption" -> 900
      [] p = "temperature" -> 600
      [] p = "vibration" -> 100
      [] p = "pressure" -> 2000
      [] p \in {"motor_speed", "speed"} -> 18900

\* C3: every value a tick writes to a sensor point lies in the point's
\* documented range, whatever the point held before (external writes included).
C3_ClampInvariant ==
    \A p \in Wrote \cap SensorPoints :
        RangeMin(p) <= tick.wrote[p] /\ tick.wrote[p] <= RangeMax(p)

\* A tick found an out-of-range temperature written by a client and wrote the
\* upper limit.
C3_Witness ==
    /\ Returned
    /\ tick.pre["temperature"] > RangeMax("temperature")
    /\ "temperature" \in Wrote
    /\ tick.wrote["temperature"] = RangeMax("temperature")

\* C4: with no external writes, a tick leaves pieces_count unchanged or adds
\* exactly one, and adds one only if it read is_active and is_working true.
C4_MonotonicCounter ==
    (InFlight \/ Returned) =>
        /\ sink["pieces_count"] \in
               {tick.pre["pieces_count"], tick.pre["pieces_count"] + 1}
        /\ sink["pieces_count"] # tick.pre["pieces_count"] =>
               loc.is_active /\ loc.is_working

\* A tick has counted a piece.
C4_Witness ==
    /\ Returned
    /\ sink["pieces_count"] = tick.pre["pieces_count"] + 1

\* C5: a tick that read is_active = false writes no sensor, counter or alarm
\* point; it writes the three state points, and only when the second it read
\* is divisible by 10.  (loc.is_active is false until it has been read.)
C5_InactiveQuiescence ==
    ((InFlight \/ Returned) /\ ~loc.is_active) =>
        /\ Wrote \subseteq StatePoints
        /\ Wrote # {} => loc.second % CadenceSeconds = 0
        /\ ~tick.ext => \A p \in Points \ StatePoints : sink[p] = tick.pre[p]

\* A tick read is_active = false, toggled the machine on and returned.
C5_Witness ==
    /\ Returned
    /\ ~loc.is_active
    /\ Wrote = StatePoints
    /\ tick.wrote["is_active"]

\* C6: a sink operation that raises ends the tick: the step changes no point,
\* the tick writes nothing afterwards, control goes to the sleep and from
\* there to the loop test, which starts the next tick while running is
\* true; start() returns only from the loop test, with running false.
C6_AbandonOnFailure ==
    [][/\ (~tick.failed /\ tick'.failed) =>
              /\ sink' = sink
              /\ tick'.wrote = tick.wrote
              /\ pc' = "sleep"
              /\ running' = running
       /\ tick.failed =>
              /\ sink' = sink
              /\ pc' # pc => (pc = "sleep" /\ pc' = "loop")
       /\ (pc = "loop" /\ running /\ pc' # pc) => pc' = "r_active"
       /\ (pc # "exited" /\ pc' = "exited") => (pc = "loop" /\ ~running)
      ]_vars

\* Every tick so far was abandoned, the last one after it had written points,
\* and the loop is still running.
C6_Witness ==
    /\ Returned
    /\ tick.failed
    /\ hist.failures = MaxEnvTicks
    /\ Wrote # {}
    /\ running

\* The points a tick that returns without exception has written, but for
\* pieces_count, which it writes on a draw.
AlarmWrites(branch) ==
    CASE branch \in {"power", "temperature", "vibration"} -> {"has_alarm"}
      [] branch = "fault" -> {"has_error"}
      [] branch = "clear" -> {"has_alarm", "has_error"}
      [] OTHER -> {}

AllWrites ==
    (IF loc.second % 10 = 0 THEN StatePoints ELSE {})
    \cup (IF loc.is_active THEN SensorPoints ELSE {})
    \cup (IF loc.is_active /\ loc.is_working THEN AlarmWrites(tick.branch) ELSE {})

TickComplete == Wrote \ {"pieces_count"} = AllWrites

\* C7: stop() only clears the flag: the tick in flight goes on to its return
\* with all of its writes; the flag is tested at the top of the loop only, no
\* tick starts while it is false, and nothing sets it again once the loop runs.
C7_StopAtLoopTop ==
    [][/\ (running /\ ~running') => (pc' = pc /\ sink' = sink /\ loc' = loc)
       /\ (InFlight /\ pc' = "sleep") => TickComplete'
       /\ (pc = "loop" /\ pc' = "r_active") => running
       /\ (pc # "exited" /\ pc' = "exited") => (pc = "loop" /\ ~running)
       /\ (~running /\ running') => pc = "initialized"
      ]_vars

\* stop() was called during an active tick, which has returned with all the
\* sensor points written.
C7_Witness ==
    /\ Returned
    /\ tick.stopped
    /\ ~running
    /\ loc.is_active
    /\ SensorPoints \subseteq Wrote
    /\ TickComplete

\* C8: a tick flips is_active and is_working and writes is_stopped exactly
\* when the second it read is divisible by 10; with one second per sleep the
\* toggling ticks are exactly 10 ticks apart, so the machine is active for
\* 10 ticks and inactive for 10 ticks in turn.
C8_ToggleCadence ==
    /\ Returned =>
          /\ ("is_active" \in Wrote) <=> (loc.second % 10 = 0)
          /\ "is_active" \in Wrote =>
                /\ StatePoints \subseteq Wrote
                /\ tick.wrote["is_active"] = ~tick.pre["is_active"]
                /\ tick.wrote["is_working"] = ~tick.pre["is_working"]
          /\ "is_active" \notin Wrote => Wrote \cap StatePoints = {}
    /\ hist.steady =>
          /\ hist.since <= 10
          /\ hist.toggles >= 2 => hist.gap = 10
          /\ (Boundary /\ hist.toggles >= 1) =>
                (sink["is_active"] <=> hist.toggles % 2 = 1)

\* The third toggle, 10 ticks after the second, has turned the machine on again.
C8_Witness ==
    /\ Returned
    /\ hist.steady
    /\ hist.toggles = 3
    /\ hist.gap = 10
    /\ "is_active" \in Wrote
    /\ sink["is_active"]

\* The first threshold, in the order power, temperature, vibration, that the
\* values written by the tick exceed.
FirstExceeded ==
    IF tick.wrote["power_consumption"] > 850 THEN "power"
    ELSE IF tick.wrote["temperature"] > 550 THEN "temperature"
    ELSE IF tick.wrote["vibration"] > 80 THEN "vibration"
    ELSE "none"

\* C9: an active and working tick that returns without exception took exactly
\* one alarm branch: the first exceeded threshold, with has_alarm true; the
\* fault is drawn only when no threshold is exceeded and sets has_error;
\* otherwise both flags are false.
C9_AlarmPriority ==
    (Returned /\ ~tick.failed /\ loc.is_active /\ loc.is_working) =>
        /\ FirstExceeded # "none" =>
              /\ tick.branch = FirstExceeded
              /\ tick.wrote["has_alarm"] = TRUE
              /\ "has_error" \notin Wrote
              /\ ~tick.ext => sink["has_alarm"]
        /\ tick.fault_drawn <=> FirstExceeded = "none"
        /\ FirstExceeded = "none" => tick.branch \in {"fault", "clear"}
        /\ tick.branch = "fault" =>
              /\ tick.wrote["has_error"] = TRUE
              /\ "has_alarm" \notin Wrote
        /\ tick.branch = "clear" =>
              /\ tick.wrote["has_alarm"] = FALSE
              /\ tick.wrote["has_error"] = FALSE
              /\ ~tick.ext => (~sink["has_alarm"] /\ ~sink["has_error"])

\* Temperature and vibration both exceeded: the temperature branch was taken.
C9_Witness ==
    /\ Returned
    /\ loc.is_active /\ loc.is_working
    /\ tick.branch = "temperature"
    /\ tick.wrote["vibration"] > 80
    /\ sink["has_alarm"]

\* The largest magnitude of a random-walk step.
MaxStep(p) ==
    CASE p = "cutting_speed" -> 20
      [] p = "temperature" -> 3
      [] p = "vibration" -> 3
      [] p = "pressure" -> 20

WalkFrom(p, before) ==
    {Clamp(RangeMin(p), RangeMax(p), before + r) : r \in -MaxStep(p) .. MaxStep(p)}

\* C10: the value an active tick writes to cutting_speed, temperature,
\* vibration and pressure is the value the point held before the tick plus a
\* step of at most 2.0, 0.3, 0.3 and 2.0, clamped to the range (ticks during
\* which no client wrote).
C10_RandomWalk ==
    (Returned /\ ~tick.failed /\ loc.is_active /\ ~tick.ext) =>
        \A p \in {"cutting_speed", "temperature", "vibration", "pressure"} :
            tick.wrote[p] \in WalkFrom(p, tick.pre[p])

\* The power values clamp(75 + (c - 20) * 2 + r, 60, 90), r in [-1, 1].
PowerFrom(c) ==
    {Clamp(600, 900, 750 + (c - 200) * 2 + r) : r \in -10 .. 10}

\* C11: the power_consumption an active tick writes is
\* clamp(75 + (c - 20) * 2 + r, 60, 90) with r in [-1, 1] and c the
\* cutting_speed written in the same tick.
C11_DerivedPower ==
    "power_consumption" \in Wrote =>
        tick.wrote["power_consumption"] \in PowerFrom(tick.wrote["cutting_speed"])

\* The point held 24.0 before the tick, the tick wrote 22.0 and derived
\* 75 + 4 + 1 = 80.0 from it.
C11_Witness ==
    /\ Returned
    /\ "power_consumption" \in Wrote
    /\ tick.pre["cutting_speed"] = 240
    /\ tick.wrote["cutting_speed"] = 220
    /\ tick.wrote["power_consumption"] = 800

\* C12 as claimed: the gate is evaluated on the value the toggle wrote: a
\* tick that turns the machine off writes no sensor, counter or alarm point
\* and a tick that turns it on writes the sensors.
C12_GateAfterToggle ==
    (Returned /\ "is_active" \in Wrote) =>
        IF tick.wrote["is_active"]
          THEN SensorPoints \subseteq Wrote
          ELSE Wrote \subseteq StatePoints

\* C12, amended: the gate is evaluated on the value of is_active read at the
\* start of the tick, before the toggle: a tick that turns the machine off
\* still writes the sensors, and a tick that turns it on writes only the
\* three state points.
C12_GateBeforeToggle ==
    Returned =>
        /\ (SensorPoints \subseteq Wrote) <=> tick.pre["is_active"]
        /\ "is_active" \in Wrote =>
              IF tick.wrote["is_active"]
                THEN Wrote = StatePoints
                ELSE SensorPoints \subseteq Wrote

\* A tick has turned the machine off and written the sensors.
C12_Witness ==
    /\ Returned
    /\ "is_active" \in Wrote
    /\ ~tick.wrote["is_active"]
    /\ ~sink["is_active"]
    /\ SensorPoints \subseteq Wrote

\* C13 as claimed: when a sink operation fails in the toggle step after
\* is_active was written and before is_stopped was written, the abandoned
\* tick still ends with is_stopped == !is_active and is_working => is_active.
C13_ConsistentAfterAbandon ==
    (Returned /\ tick.failed /\ "is_active" \in Wrote /\ "is_stopped" \notin Wrote) =>
        /\ sink["is_stopped"] = ~sink["is_active"]
        /\ sink["is_working"] => sink["is_active"]

\* An active and working tick has run its alarm step undisturbed.
AlarmsEvaluated ==
    /\ Returned
    /\ ~tick.failed
    /\ ~tick.ext
    /\ loc.is_active
    /\ loc.is_working

\* C14 as claimed: after an active and working tick has_alarm is true only
\* if a threshold was exceeded in that tick, has_error is true only if the
\* fault was injected in that tick, and the two flags are never both true.
C14_FlagsReevaluated ==
    AlarmsEvaluated =>
        /\ sink["has_alarm"] => FirstExceeded # "none"
        /\ sink["has_error"] => tick.branch = "fault"
        /\ ~(sink["has_alarm"] /\ sink["has_error"])

\* C14, amended: an active and working tick writes only the flag of the
\* branch it takes: a threshold branch sets has_alarm and leaves has_error
\* as it was, the fault branch sets has_error and leaves has_alarm as it
\* was, and only the branch in which no condition holds resets both.
C14_FlagsPerBranch ==
    AlarmsEvaluated =>
        /\ tick.branch \in {"power", "temperature", "vibration"} =>
              /\ sink["has_alarm"]
              /\ sink["has_error"] = tick.pre["has_error"]
        /\ tick.branch = "fault" =>
              /\ sink["has_error"]
              /\ sink["has_alarm"] = tick.pre["has_alarm"]
        /\ tick.branch = "clear" =>
              /\ ~sink["has_alarm"]
              /\ ~sink["has_error"]

\* has_error was true before the tick, the tick took the temperature
\* branch, and both flags are true after it.
C14_Witness ==
    /\ AlarmsEvaluated
    /\ tick.branch = "temperature"
    /\ tick.pre["has_error"]
    /\ sink["has_alarm"]
    /\ sink["has_error"]

\* C15: every power_consumption a tick writes lies in [70, 80], derived from
\* a cutting_speed in [18, 22]; the clamp to [60, 90] leaves the value as
\* computed and the branch power > 85 is never taken, whatever the points
\* held before the tick.
C15_PowerBand ==
    /\ tick.branch # "power"
    /\ "power_consumption" \in Wrote =>
          /\ tick.wrote["cutting_speed"] \in 180 .. 220
          /\ tick.wrote["power_consumption"] \in 700 .. 800
          /\ tick.wrote["power_consumption"] = loc.power
          /\ \E r \in -10 .. 10 :
                tick.wrote["power_consumption"]
                  = 750 + (tick.wrote["cutting_speed"] - 200) * 2 + r

\* The point held 95.0 before the tick; the tick wrote the largest value,
\* 80.0, and its alarm step took another branch.
C15_Witness ==
    /\ Returned
    /\ "power_consumption" \in Wrote
    /\ tick.pre["power_consumption"] = 950
    /\ tick.wrote["power_consumption"] = 800
    /\ tick.branch \in {"temperature", "vibration", "fault", "clear"}

\* C16: after stop() is called while the loop runs, the loop eventually
\* exits if every sink operation and the sleep eventually return; once the
\* flag is cleared the next test at the top of the loop exits, so only the
\* tick in flight and one sleep lie between the call and the exit.
C16_StopLeadsToExit ==
    /\ (Serving /\ ~running) ~> (pc = "exited")
    /\ [][(Serving /\ ~running /\ pc' # pc) =>
             \/ InFlight /\ pc' # "loop"
             \/ pc = "sleep" /\ pc' = "loop"
             \/ pc = "loop" /\ pc' = "exited"]_vars

\* start() has returned after ticks were executed.
C16_Witness ==
    /\ pc = "exited"
    /\ ~running
    /\ ticks > 0

\* C17: with no sink failure and no external write, speed equals motor_speed
\* at every tick boundary; the two differ only between the write of
\* motor_speed and the write of speed inside a tick.
C17_SpeedMirrorsMotor ==
    /\ Boundary => sink["speed"] = sink["motor_speed"]
    /\ (Serving /\ sink["speed"] # sink["motor_speed"]) => pc = "w_sensor"

\* A tick has returned with both points at a value other than the seed.
C17_Witness ==
    /\ Returned
    /\ "speed" \in Wrote
    /\ sink["speed"] = sink["motor_speed"]
    /\ sink["speed"] # 18000

\* C18 as claimed: the value the engine writes to pieces_count is one more
\* than the value the sink held immediately before that write.
C18_AtomicIncrement ==
    [][(pc = "w_pieces" /\ pc' = "alarms") =>
          sink'["pieces_count"] = sink["pieces_count"] + 1]_vars

\* C19: start() sets the running flag whatever preceded it, so after a stop()
\* issued before start() the loop still runs ticks.
C19_StartSetsRunning ==
    [][(pc = "initialized" /\ pc' # pc) => (pc' = "loop" /\ running')]_vars

\* stop() was called before start(), and a tick is in flight with the flag set.
C19_Witness ==
    /\ hist.early_stop
    /\ InFlight
    /\ running

====
